---- MODULE Spec2Model ----
(***************************************************************************)
(* Model of requirements_interactive.py: the dependency parser, the graph  *)
(* builder, the hierarchical levelling, the analysis exported to the page  *)
(* (cycles, ancestors, descendants) and the view state of the page script. *)
(*                                                                         *)
(* Text is a sequence of one-character strings, so that the regular        *)
(* expressions, int() and the {i:03d} format are computed, not assumed.    *)
(***************************************************************************)
EXTENDS Integers, Sequences, FiniteSets, TLC

VARIABLES pc, df, parsed_deps, G_nodes, G_attrs, G_edges, levels, visited, queue,
          cycles, has_cycles, cycles_js, node_data_js, subgraph_data,
          selectedNodeId, visibleNodeIds, currentViewContext,
          tooltipPinned, tooltipDisplay, tooltipPinnedClass, toast

\* the table and the graph built from it
dataVars == <<df, parsed_deps, G_nodes, G_attrs, G_edges>>

\* calculate_hierarchical_levels: its result and the state of its fallback loop
levelVars == <<levels, visited, queue>>

\* what inject_custom_controls writes into the page script
exportVars == <<cycles, has_cycles, cycles_js, node_data_js, subgraph_data>>

\* the state of the page script; toast is the type of the toast raised by the
\* handler that ran last ("none" if it raised none): toasts fade on their own
viewVars == <<selectedNodeId, visibleNodeIds, currentViewContext,
              tooltipPinned, tooltipDisplay, tooltipPinnedClass, toast>>

vars == <<pc, dataVars, levelVars, exportVars, viewVars>>

(***************************************************************************)
(* Bounds                                                                  *)
(***************************************************************************)
\* pieces of text concatenated into one dependency cell (parser inputs)
MaxPieces == 4
\* rows of the table whose dependency cells range over every listed form
MaxRows == 3
\* rows of the uniform tables (every row written the same way) and of the
\* tables whose rows depend on earlier rows and on themselves
MaxChainRows == 4

(***************************************************************************)
(* Text                                                                    *)
(***************************************************************************)
\* a missing cell (pandas NaN); no text is equal to it
NaN == <<"NaN">>

isna(x) == x = NaN

\* the placeholder dash (the one character U+2014)
EmDash == <<"U+2014">>

Digits == {"0", "1", "2", "3", "4", "5", "6", "7", "8", "9"}

DigitChar == <<"0", "1", "2", "3", "4", "5", "6", "7", "8", "9">>

DigitVal(c) == CHOOSE v \in 0..9 : DigitChar[v + 1] = c

Whitespace == {" "}

RMPrefix == <<"R", "M", "-">>

DotDotRM == <<".", ".", "R", "M", "-">>

\* s[i..j], clipped to the text (Python slicing)
Slice(s, i, j) == SubSeq(s, i, IF j > Len(s) THEN Len(s) ELSE j)

\* length of the longest run of digits of s that starts at position i (\d+ is greedy)
DigitRunLen(s, i) ==
  LET stops == {j \in i..Len(s) : s[j] \notin Digits}
  IN IF stops = {} THEN (IF i > Len(s) THEN 0 ELSE Len(s) - i + 1)
     ELSE (CHOOSE j \in stops : \A k \in stops : j <= k) - i

\* int() of a run of decimal digits
RECURSIVE int(_)
int(ds) ==
  IF ds = <<>> THEN 0
  ELSE 10 * int(SubSeq(ds, 1, Len(ds) - 1)) + DigitVal(ds[Len(ds)])

\* str() of a natural number
RECURSIVE DecimalDigits(_)
DecimalDigits(i) ==
  IF i < 10 THEN <<DigitChar[i + 1]>>
  ELSE DecimalDigits(i \div 10) \o <<DigitChar[(i % 10) + 1]>>

\* the format {i:03d}: decimal, zero-padded on the left to at least 3 digits
Format03d(i) ==
  LET ds == DecimalDigits(i)
  IN IF Len(ds) >= 3 THEN ds
     ELSE [k \in 1..(3 - Len(ds)) |-> "0"] \o ds

\* str.strip()
RECURSIVE strip(_)
strip(s) ==
  IF s = <<>> THEN s
  ELSE IF s[1] \in Whitespace THEN strip(Tail(s))
  ELSE IF s[Len(s)] \in Whitespace THEN strip(SubSeq(s, 1, Len(s) - 1))
  ELSE s

(***************************************************************************)
(* parse_dependencies                                                      *)
(***************************************************************************)
\* re.match(r'RM-(\d+)\.\.RM-(\d+)', s): anchored at the start of s only
RangeGroup1Len(s) == DigitRunLen(s, 4)

RangeGroup2Start(s) == 4 + RangeGroup1Len(s) + 5

\* the pattern with any two characters and a hyphen as the second prefix
RangeMatch_any_prefix(s) ==
  /\ Slice(s, 1, 3) = RMPrefix
  /\ RangeGroup1Len(s) >= 1
  /\ Slice(s, 4 + RangeGroup1Len(s), 5 + RangeGroup1Len(s)) = <<".", ".">>
  /\ Slice(s, 8 + RangeGroup1Len(s), 8 + RangeGroup1Len(s)) = <<"-">>
  /\ DigitRunLen(s, RangeGroup2Start(s)) >= 1

\* the pattern required to match the whole of s (re.fullmatch)
RangeMatch_fullmatch(s) ==
  /\ Slice(s, 1, 3) = RMPrefix
  /\ RangeGroup1Len(s) >= 1
  /\ Slice(s, 4 + RangeGroup1Len(s), 8 + RangeGroup1Len(s)) = DotDotRM
  /\ DigitRunLen(s, RangeGroup2Start(s)) >= 1
  /\ RangeGroup2Start(s) + DigitRunLen(s, RangeGroup2Start(s)) - 1 = Len(s)

RangeMatch(s) ==
  /\ Slice(s, 1, 3) = RMPrefix
  /\ RangeGroup1Len(s) >= 1
  /\ Slice(s, 4 + RangeGroup1Len(s), 8 + RangeGroup1Len(s)) = DotDotRM
  /\ DigitRunLen(s, RangeGroup2Start(s)) >= 1

RangeGroup1(s) == SubSeq(s, 4, 3 + RangeGroup1Len(s))

RangeGroup2(s) ==
  SubSeq(s, RangeGroup2Start(s),
         RangeGroup2Start(s) + DigitRunLen(s, RangeGroup2Start(s)) - 1)

\* re.findall(r'RM-\d+', s): the non-overlapping matches, left to right
RECURSIVE FindAllFrom(_, _)
FindAllFrom(s, i) ==
  IF i > Len(s) THEN <<>>
  ELSE IF Slice(s, i, i + 2) = RMPrefix /\ DigitRunLen(s, i + 3) >= 1
       THEN <<SubSeq(s, i, i + 2 + DigitRunLen(s, i + 3))>>
              \o FindAllFrom(s, i + 3 + DigitRunLen(s, i + 3))
       ELSE FindAllFrom(s, i + 1)

\* the scan keeping only the first mention of each identifier
findall_distinct(s) ==
  LET all  == FindAllFrom(s, 1)
      keep == {k \in 1..Len(all) : \A j \in 1..(k - 1) : all[j] # all[k]}
  IN [n \in 1..Cardinality(keep) |->
        all[CHOOSE k \in keep : Cardinality({j \in keep : j < k}) = n - 1]]

findall(s) == FindAllFrom(s, 1)

\* the expansion with the end bound left out: range(start, end)
ExpandRange_exclusive(start, end) ==
  [k \in 1..(end - start) |-> RMPrefix \o Format03d(start + k - 1)]

\* the expansion that counts down when the start is above the end
ExpandRange_reversed(start, end) ==
  IF start > end
  THEN [k \in 1..(start - end + 1) |-> RMPrefix \o Format03d(start - k + 1)]
  ELSE [k \in 1..(end - start + 1) |-> RMPrefix \o Format03d(start + k - 1)]

\* [f'RM-{i:03d}' for i in range(start, end + 1)]
ExpandRange(start, end) ==
  [k \in 1..(end - start + 1) |-> RMPrefix \o Format03d(start + k - 1)]

\* a cell that pandas read as a number: the tag, then the digits as written
Int64(digits) == <<"int64">> \o digits

\* a cell holds a str unless it is missing (NaN is a float) or a number
IsStr(x) == x # NaN /\ (x = <<>> \/ x[1] # "int64")

\* the outcome of a call that raises: dep_str.strip() on a value that is no str
AttributeError == << <<"AttributeError">> >>

\* the parser with the blank test made before the missing-value test
parse_dependencies_strip_first(dep_str) ==
  IF ~IsStr(dep_str) THEN AttributeError
  ELSE IF strip(dep_str) = <<>> \/ isna(dep_str) \/ dep_str = EmDash THEN <<>>
  ELSE IF RangeMatch(dep_str)
       THEN ExpandRange(int(RangeGroup1(dep_str)), int(RangeGroup2(dep_str)))
       ELSE findall(dep_str)

\* the three tests of the first line are evaluated left to right and stop at
\* the first that is true
parse_dependencies(dep_str) ==
  IF isna(dep_str) \/ dep_str = EmDash THEN <<>>
  ELSE IF ~IsStr(dep_str) THEN AttributeError
  ELSE IF strip(dep_str) = <<>> THEN <<>>
  ELSE IF RangeMatch(dep_str)
       THEN ExpandRange(int(RangeGroup1(dep_str)), int(RangeGroup2(dep_str)))
       ELSE findall(dep_str)

(***************************************************************************)
(* Graph helpers (networkx.DiGraph: nodes and edges keep insertion order)  *)
(***************************************************************************)
Range(f) == {f[i] : i \in DOMAIN f}

\* the element of a one-element set; The({F(x) : x \in {e}}) is F(e) with e
\* evaluated once, which is how a loop carries its accumulator
The(S) == CHOOSE x \in S : TRUE

Max(S) == CHOOSE x \in S : \A y \in S : y <= x

Min(S) == CHOOSE x \in S : \A y \in S : x <= y

\* a dict: d.get(k, default), d[k] = v, {}
Get(d, k, default) == IF k \in DOMAIN d THEN d[k] ELSE default

Put(d, k, v) == [x \in (DOMAIN d) \cup {k} |-> IF x = k THEN v ELSE d[x]]

EmptyDict == <<>>

\* position of a node in the insertion order
Index(nodes, n) == CHOOSE i \in 1..Len(nodes) : nodes[i] = n

\* G.add_node: a node that is already present keeps its place
add_node(nodes, n) == IF n \in Range(nodes) THEN nodes ELSE Append(nodes, n)

\* G.add_edge: an edge that is already present is not added twice
add_edge(edges, u, v) ==
  IF <<u, v>> \in Range(edges) THEN edges ELSE Append(edges, <<u, v>>)

predecessors(edges, n) == {e[1] : e \in {x \in Range(edges) : x[2] = n}}

in_degree(edges, n) == Cardinality(predecessors(edges, n))

out_degree(edges, n) == Cardinality({e \in Range(edges) : e[1] = n})

\* G.successors(n), in the order the edges were added
RECURSIVE successors(_, _)
successors(edges, n) ==
  IF edges = <<>> THEN <<>>
  ELSE (IF edges[1][1] = n THEN <<edges[1][2]>> ELSE <<>>)
         \o successors(Tail(edges), n)

(***************************************************************************)
(* build_graph                                                             *)
(***************************************************************************)
\* the defaults of the node attributes
Unknown == <<"U", "n", "k", "n", "o", "w", "n">>

NA == <<"N", "/", "A">>

AltaP0 == <<"A", "l", "t", "a", " ", "(", "P", "0", ")">>

MediaP1 == <<"M", "e", "d", "i", "a", " ", "(", "P", "1", ")">>

BajaP2 == <<"B", "a", "j", "a", " ", "(", "P", "2", ")">>

\* x if pd.notna(x) else default
OrDefault(x, default) == IF isna(x) THEN default ELSE x

\* the longest detailed text kept whole
RequisitoLimit == 300

\* the text cut as soon as it reaches RequisitoLimit characters
Requisito_at_limit(x) ==
  LET requisito == OrDefault(x, NA)
  IN IF Len(requisito) >= RequisitoLimit
     THEN SubSeq(requisito, 1, RequisitoLimit) \o <<".", ".", ".">>
     ELSE requisito

\* the text of the node: 'N/A' when missing, cut after RequisitoLimit characters
Requisito(x) ==
  LET requisito == OrDefault(x, NA)
  IN IF Len(requisito) > RequisitoLimit
     THEN SubSeq(requisito, 1, RequisitoLimit) \o <<".", ".", ".">>
     ELSE requisito

\* the keyword arguments of G.add_node for one row
NodeAttrs(row) ==
  [area          |-> OrDefault(row.Area, Unknown),
   funcionalidad |-> OrDefault(row.Funcionalidad, NA),
   requisito     |-> Requisito(row.Requisito_detallado),
   prioridad     |-> OrDefault(row.Prioridad, MediaP1),
   estatus       |-> OrDefault(row.Estatus, NA),
   version       |-> OrDefault(row.Version_objetivo, NA),
   owner         |-> OrDefault(row.Owner, NA),
   roles         |-> OrDefault(row.Roles, NA),
   dependencias  |-> OrDefault(row.Dependencias, EmDash)]

\* the first loop, attributes: only the first record of an identifier counts
RECURSIVE AddRowAttrs_first(_, _)
AddRowAttrs_first(attrs, rows) ==
  IF rows = <<>> THEN attrs
  ELSE AddRowAttrs_first(IF rows[1].ID \in DOMAIN attrs THEN attrs
                         ELSE Put(attrs, rows[1].ID, NodeAttrs(rows[1])),
                         Tail(rows))

\* the first loop, attributes: G.add_node updates the attributes of a node
\* that is already present
RECURSIVE AddRowAttrs(_, _)
AddRowAttrs(attrs, rows) ==
  IF rows = <<>> THEN attrs
  ELSE AddRowAttrs(Put(attrs, rows[1].ID, NodeAttrs(rows[1])), Tail(rows))

\* the first loop adding a node for the text of the dependency cell as well
RECURSIVE AddRows_with_cells(_, _)
AddRows_with_cells(nodes, rows) ==
  IF rows = <<>> THEN nodes
  ELSE AddRows_with_cells(
         IF isna(rows[1].Dependencias) THEN add_node(nodes, rows[1].ID)
         ELSE add_node(add_node(nodes, rows[1].ID), rows[1].Dependencias),
         Tail(rows))

\* first loop: one add_node per row
RECURSIVE AddRows(_, _)
AddRows(nodes, rows) ==
  IF rows = <<>> THEN nodes
  ELSE AddRows(add_node(nodes, rows[1].ID), Tail(rows))

\* the inner loop without the test `dep in G.nodes`
RECURSIVE AddDeps_unchecked(_, _, _, _)
AddDeps_unchecked(edges, nodes, deps, id) ==
  IF deps = <<>> THEN edges
  ELSE AddDeps_unchecked(add_edge(edges, deps[1], id), nodes, Tail(deps), id)

\* inner loop of the second loop: the parsed dependencies of one row
RECURSIVE AddDeps(_, _, _, _)
AddDeps(edges, nodes, deps, id) ==
  IF deps = <<>> THEN edges
  ELSE AddDeps(IF deps[1] \in Range(nodes) THEN add_edge(edges, deps[1], id)
               ELSE edges,
               nodes, Tail(deps), id)

\* the second loop with the edges into a node replaced by those of each new
\* row that bears its identifier
RECURSIVE AddRowEdges_replacing(_, _, _, _, _)
AddRowEdges_replacing(edges, nodes, rows, parsed, i) ==
  IF i > Len(rows) THEN edges
  ELSE AddRowEdges_replacing(
         AddDeps(SelectSeq(edges, LAMBDA e : e[2] # rows[i].ID),
                 nodes, parsed[i], rows[i].ID),
         nodes, rows, parsed, i + 1)

\* second loop: rows i..Len(rows)
RECURSIVE AddRowEdges(_, _, _, _, _)
AddRowEdges(edges, nodes, rows, parsed, i) ==
  IF i > Len(rows) THEN edges
  ELSE AddRowEdges(AddDeps(edges, nodes, parsed[i], rows[i].ID),
                   nodes, rows, parsed, i + 1)

(***************************************************************************)
(* calculate_hierarchical_levels                                           *)
(***************************************************************************)
\* the nodes of a list that belong to S, in the order of the list
RECURSIVE SelectNodes(_, _)
SelectNodes(nodes, S) ==
  IF nodes = <<>> THEN <<>>
  ELSE (IF nodes[1] \in S THEN <<nodes[1]>> ELSE <<>>)
         \o SelectNodes(Tail(nodes), S)

\* [n for n in G.nodes() if G.in_degree(n) == 0]
ZeroInDegree(nodes, edges) ==
  SelectNodes(nodes, {n \in Range(nodes) : in_degree(edges, n) = 0})

\* the children visited while one generation is processed, in order
RECURSIVE ChildrenOf(_, _)
ChildrenOf(gen, edges) ==
  IF gen = <<>> THEN <<>>
  ELSE successors(edges, gen[1]) \o ChildrenOf(Tail(gen), edges)

\* indegree_map[child] -= 1 for each child; a child that reaches 0 joins the
\* next generation
RECURSIVE Relax(_, _, _)
Relax(children, indeg, zero) ==
  IF children = <<>> THEN [indeg |-> indeg, zero |-> zero]
  ELSE LET c == children[1]
           d == indeg[c] - 1
       IN The({Relax(Tail(children), r.indeg, r.zero) :
                 r \in {[indeg |-> [indeg EXCEPT ![c] = d],
                         zero  |-> IF d = 0 THEN Append(zero, c) ELSE zero]}})

\* nx.topological_sort: the nodes it yields, generation by generation, before
\* it either finishes or raises NetworkXUnfeasible
RECURSIVE TopoYield(_, _, _)
TopoYield(gen, indeg, edges) ==
  IF gen = <<>> THEN <<>>
  ELSE The({gen \o TopoYield(r.zero, r.indeg, edges) :
              r \in {Relax(ChildrenOf(gen, edges), indeg, <<>>)}})

topological_sort(nodes, edges) ==
  TopoYield(ZeroInDegree(nodes, edges),
            [n \in Range(nodes) |-> in_degree(edges, n)], edges)

\* the level taken from the lowest predecessor instead of the highest
LevelOfNode_min(lv, edges, node) ==
  IF predecessors(edges, node) = {} THEN 0
  ELSE Min({Get(lv, p, 0) : p \in predecessors(edges, node)}) + 1

\* the body of the try block for one yielded node
LevelOfNode(lv, edges, node) ==
  IF predecessors(edges, node) = {} THEN 0
  ELSE Max({Get(lv, p, 0) : p \in predecessors(edges, node)}) + 1

RECURSIVE TryLevels(_, _, _)
TryLevels(lv, edges, order) ==
  IF order = <<>> THEN lv
  ELSE The({TryLevels(next, edges, Tail(order)) :
              next \in {Put(lv, order[1], LevelOfNode(lv, edges, order[1]))}})

\* min(G.nodes(), key=in_degree): the first node of least in-degree
MinInDegreeNode(nodes, edges) ==
  LET least == Min({in_degree(edges, n) : n \in Range(nodes)})
  IN nodes[Min({i \in 1..Len(nodes) : in_degree(edges, nodes[i]) = least})]

\* the fallback seeded, when no node has in-degree zero, from every node of
\* least in-degree
Roots_every_least(nodes, edges) ==
  LET zero  == ZeroInDegree(nodes, edges)
      least == Min({in_degree(edges, n) : n \in Range(nodes)})
  IN IF zero = <<>>
     THEN SelectNodes(nodes, {n \in Range(nodes) : in_degree(edges, n) = least})
     ELSE zero

\* roots of the fallback
Roots(nodes, edges) ==
  LET zero == ZeroInDegree(nodes, edges)
  IN IF zero = <<>> THEN <<MinInDegreeNode(nodes, edges)>> ELSE zero

\* the head of the queue read but left in place
AfterPop_kept(q) == q

\* queue.pop(0): what is left of the queue
AfterPop(q) == Tail(q)

\* the successors of node that are appended to the queue
UnvisitedSuccessors(edges, node, seen, level) ==
  LET all == successors(edges, node)
      succ == SelectNodes(all, Range(all) \ seen)
  IN [i \in 1..Len(succ) |-> <<succ[i], level + 1>>]

\* the return without the closing loop
FillUnvisited_skipped(lv, nodes) == lv

\* the closing loop: level 0 for every node that has none
FillUnvisited(lv, nodes) ==
  [n \in Range(nodes) |-> IF n \in DOMAIN lv THEN lv[n] ELSE 0]

(***************************************************************************)
(* inject_custom_controls: the analysis exported to the page               *)
(***************************************************************************)
\* the elementary cycles that start at root and stay among the nodes that
\* come after root in the insertion order; path is the walk so far
RECURSIVE CyclesFrom(_, _, _, _)
CyclesFrom(nodes, edges, root, path) ==
  LET last == path[Len(path)]
      succ == Range(successors(edges, last))
      next == {w \in succ : /\ w \notin Range(path)
                            /\ Index(nodes, w) > Index(nodes, root)}
  IN (IF root \in succ THEN {path} ELSE {})
       \cup UNION {CyclesFrom(nodes, edges, root, Append(path, w)) : w \in next}

\* the cycles of two nodes or more only: self-loops left out
simple_cycles_proper(nodes, edges) ==
  {c \in UNION {CyclesFrom(nodes, edges, r, <<r>>) : r \in Range(nodes)} :
     Len(c) > 1}

\* list(nx.simple_cycles(G)): every elementary cycle once, written from its
\* first node in insertion order (the order of the list is the library's)
simple_cycles(nodes, edges) ==
  UNION {CyclesFrom(nodes, edges, r, <<r>>) : r \in Range(nodes)}

\* cycle_nodes.update(cycle) for every cycle
CycleNodes(cs) == UNION {Range(c) : c \in cs}

\* the search stopped after its first layer
BfsReach_onestep(E, frontier, seen) ==
  seen \cup {e[2] : e \in {x \in E : x[1] \in frontier}}

\* breadth-first search: the nodes reached from the frontier, added to seen
RECURSIVE BfsReach(_, _, _)
BfsReach(E, frontier, seen) ==
  IF frontier = {} THEN seen
  ELSE LET next == {e[2] : e \in {x \in E : x[1] \in frontier}} \ seen
       IN BfsReach(E, next, seen \cup next)

\* the search run against the direction of the edges
descendants_reversed(edges, n) ==
  BfsReach({<<e[2], e[1]>> : e \in Range(edges)}, {n}, {n}) \ {n}

\* nx.descendants(G, n): the nodes the search from n reaches, n itself left out
descendants(edges, n) == BfsReach(Range(edges), {n}, {n}) \ {n}

\* every node with a path to n, n itself among them when it lies on a cycle
ancestors_with_source(edges, n) ==
  BfsReach({<<e[2], e[1]>> : e \in Range(edges)}, {n}, {})

\* nx.ancestors(G, n): the same search on the reversed graph
ancestors(edges, n) ==
  BfsReach({<<e[2], e[1]>> : e \in Range(edges)}, {n}, {n}) \ {n}

\* cycles[:10]: which cycles come first is the library's choice
CyclesLimit == 10

\* the whole list handed to the page
FirstCycles_uncut(cs) == {cs}

FirstCycles(cs) ==
  IF Cardinality(cs) <= CyclesLimit THEN {cs}
  ELSE {S \in SUBSET cs : Cardinality(S) = CyclesLimit}

NodeDataJs(nodes, attrs, edges, cycle_nodes) ==
  [n \in Range(nodes) |-> [area          |-> attrs[n].area,
                            prioridad     |-> attrs[n].prioridad,
                            version       |-> attrs[n].version,
                            funcionalidad |-> attrs[n].funcionalidad,
                            requisito     |-> attrs[n].requisito,
                            owner         |-> attrs[n].owner,
                            roles         |-> attrs[n].roles,
                            estatus       |-> attrs[n].estatus,
                            dependencias  |-> attrs[n].dependencias,
                            in_degree     |-> in_degree(edges, n),
                            out_degree    |-> out_degree(edges, n),
                            in_cycle      |-> n \in cycle_nodes]]

SubgraphData(nodes, edges) ==
  [n \in Range(nodes) |-> [ancestors   |-> ancestors(edges, n),
                            descendants |-> descendants(edges, n)]]

(***************************************************************************)
(* Inputs                                                                  *)
(***************************************************************************)
\* the identifier of row i, as it is written in the table (i < 100)
RowId(i) == <<"R", "M", "-", "0", DigitChar[(i \div 10) + 1], DigitChar[(i % 10) + 1]>>

\* a row of the table with its columns (Area and Version_objetivo stand for
\* the two column names written with an accent)
FullRow(id, cell, area, prioridad, version) ==
  [ID |-> id, Area |-> area, Funcionalidad |-> NaN, Requisito_detallado |-> NaN,
   Prioridad |-> prioridad, Estatus |-> NaN, Version_objetivo |-> version,
   Owner |-> NaN, Roles |-> NaN, Dependencias |-> cell]

\* a row with nothing but an identifier and a dependency cell
Row(id, cell) == FullRow(id, cell, NaN, NaN, NaN)

RECURSIVE Concat(_)
Concat(ps) == IF ps = <<>> THEN <<>> ELSE ps[1] \o Concat(Tail(ps))

\* pieces of dependency text: identifiers of several widths, a bare prefix,
\* another prefix, the range dots, separators and the placeholder dash
Pieces ==
  { RowId(1), RowId(3), <<"R", "M", "-", "0", "0", "0", "2">>,
    <<"R", "M", "-", "1", "2">>, RMPrefix, <<"X", "X", "-", "0", "0", "2">>,
    <<".", ".">>, <<",">>, <<" ">>, EmDash }

\* pd.read_csv infers the type of a column from all its cells: a Dependencias
\* column in which every cell is a whole number is read as numbers, not as text
NumericCells == {Int64(<<"1", "2">>), Int64(<<"0">>)}

ParseCells ==
  {NaN} \cup NumericCells
    \cup {Concat(ps) : ps \in UNION {[1..k -> Pieces] : k \in 0..MaxPieces}}

\* cells that name no identifier, one, two (the first of them twice) or the
\* range of the first three: every set of predecessors among three rows
GraphCells ==
  {NaN}
    \cup {RowId(j) : j \in 1..MaxRows}
    \cup {RowId(p[1]) \o <<",", " ">> \o RowId(p[2]) \o <<",", " ">> \o RowId(p[1]) :
            p \in {q \in (1..MaxRows) \X (1..MaxRows) : q[1] < q[2]}}
    \cup {RowId(1) \o <<".", ".">> \o RowId(3)}

UniformPatterns == {"none", "self", "prev", "ring"}

UniformCell(pattern, i, n) ==
  CASE pattern = "none" -> NaN
    [] pattern = "self" -> RowId(i)
    [] pattern = "prev" -> IF i = 1 THEN EmDash ELSE RowId(i - 1)
    [] pattern = "ring" -> IF i = 1 THEN RowId(n) ELSE RowId(i - 1)

Null == <<"null">>

NoContext ==
  [type |-> "none", node |-> Null, count |-> 0,
   area |-> Null, priority |-> Null, version |-> Null, query |-> Null]

InitRest ==
  /\ pc = "csv"
  /\ parsed_deps = <<>>
  /\ G_nodes = <<>>
  /\ G_attrs = EmptyDict
  /\ G_edges = <<>>
  /\ levels = EmptyDict
  /\ visited = {}
  /\ queue = <<>>
  /\ cycles = {}
  /\ has_cycles = FALSE
  /\ cycles_js = {}
  /\ node_data_js = EmptyDict
  /\ subgraph_data = EmptyDict
  /\ selectedNodeId = Null
  /\ visibleNodeIds = {}
  /\ currentViewContext = NoContext
  /\ tooltipPinned = FALSE
  /\ tooltipDisplay = "none"
  /\ tooltipPinnedClass = FALSE
  /\ toast = "none"

\* one row, its dependency cell any text made of at most MaxPieces pieces
InitParse ==
  /\ \E cell \in ParseCells : df = <<Row(RowId(1), cell)>>
  /\ InitRest

\* up to MaxRows rows with distinct identifiers, every cell from GraphCells
Init ==
  /\ \E n \in 1..MaxRows : \E cells \in [1..n -> GraphCells] :
       df = [i \in 1..n |-> Row(RowId(i), cells[i])]
  /\ InitRest

\* the attributes of the uniform tables: the area alternates with every row,
\* the priority takes three values in turn, the version alternates with every
\* second row; a missing value is among the values of each
Seguridad == <<"S", "e", "g", "u", "r", "i", "d", "a", "d">>

V1 == <<"v", "1">>

UniformArea(i) == IF (i - 1) % 2 = 0 THEN Seguridad ELSE NaN

UniformPrioridad(i) ==
  CASE (i - 1) % 3 = 0 -> AltaP0
    [] (i - 1) % 3 = 1 -> NaN
    [] (i - 1) % 3 = 2 -> BajaP2

UniformVersion(i) == IF ((i - 1) \div 2) % 2 = 0 THEN V1 ELSE NaN

\* a table of n rows all written after the same pattern
UniformTable(pattern, n) ==
  [i \in 1..n |->
     FullRow(RowId(i), UniformCell(pattern, i, n),
             UniformArea(i), UniformPrioridad(i), UniformVersion(i))]

\* detailed texts: one longer than the limit, one short
LongText == [k \in 1..(RequisitoLimit + 1) |-> "x"]

ShortText == <<"o", "k">>

\* identifiers that several rows may bear, and one that no row bears
SharedIds == {RowId(1), RowId(2)}

UnknownId == RowId(9)

\* up to MaxRows rows whose identifiers may repeat; a cell is missing, names
\* RM-001 or RM-002 (the row itself, another row, or no row) or names an
\* unknown identifier; the area is missing or given; the detailed text is long in the
\* odd rows and short in the even ones
InitRows ==
  /\ \E n \in 1..MaxRows :
     \E ids \in [1..n -> SharedIds] :
     \E cells \in [1..n -> {NaN, RowId(1), RowId(2), UnknownId}] :
     \E rowAreas \in [1..n -> {NaN, Seguridad}] :
       df = [i \in 1..n |->
               [FullRow(ids[i], cells[i], rowAreas[i], NaN, NaN)
                  EXCEPT !.Requisito_detallado =
                           IF i % 2 = 1 THEN LongText ELSE ShortText]]
  /\ InitRest

\* a text of n characters, no two neighbours alike
Numbered(n) == [k \in 1..n |-> DigitChar[(k % 10) + 1]]

\* detailed texts: missing, one character, and the lengths around the limit
DetailedTexts ==
  { NaN, Numbered(1), Numbered(RequisitoLimit - 1), Numbered(RequisitoLimit),
    Numbered(RequisitoLimit + 1), Numbered(2 * RequisitoLimit) }

\* up to MaxRows rows with distinct identifiers and no dependencies, their
\* detailed texts any of DetailedTexts
InitText ==
  /\ \E n \in 1..MaxRows : \E texts \in [1..n -> DetailedTexts] :
       df = [i \in 1..n |->
               [Row(RowId(i), NaN) EXCEPT !.Requisito_detallado = texts[i]]]
  /\ InitRest

\* the cells of row i in the tables of the fallback: no dependency, the first
\* row, the row before, the row itself, the first row and the row before, the
\* range from the first row to the row itself, or that range written backwards
FallbackCells(i) ==
  { NaN, RowId(1), RowId(IF i = 1 THEN 1 ELSE i - 1), RowId(i),
    RowId(1) \o <<",", " ">> \o RowId(IF i = 1 THEN 1 ELSE i - 1),
    RowId(1) \o <<".", ".">> \o RowId(i),
    RowId(i) \o <<".", ".">> \o RowId(1) }

\* up to MaxChainRows rows with distinct identifiers, the cell of each row any
\* of its FallbackCells
InitFallback ==
  /\ \E n \in 1..MaxChainRows :
     \E cells \in [1..n -> UNION {FallbackCells(i) : i \in 1..n}] :
       /\ \A i \in 1..n : cells[i] \in FallbackCells(i)
       /\ df = [i \in 1..n |-> Row(RowId(i), cells[i])]
  /\ InitRest

\* the uniform tables of up to MaxChainRows rows
InitUI ==
  /\ \E pattern \in UniformPatterns : \E n \in 1..MaxChainRows :
       df = UniformTable(pattern, n)
  /\ InitRest

\* rows that depend on themselves, or each on the row before, from one row
\* up to one more than the cycles the page is given
InitCycles ==
  /\ \E pattern \in {"self", "prev"} : \E n \in 1..(CyclesLimit + 1) :
       df = UniformTable(pattern, n)
  /\ InitRest

(***************************************************************************)
(* The batch run: main()                                                   *)
(***************************************************************************)
\* df['parsed_deps'] = df['Dependencias'].apply(parse_dependencies); an
\* exception in one cell ends the run
load_requirements ==
  /\ pc = "csv"
  /\ LET parsed == [i \in 1..Len(df) |-> parse_dependencies(df[i].Dependencias)]
     IN IF \E i \in 1..Len(df) : parsed[i] = AttributeError
        THEN /\ pc' = "raised"
             /\ UNCHANGED parsed_deps
        ELSE /\ pc' = "loaded"
             /\ parsed_deps' = parsed
  /\ UNCHANGED <<df, G_nodes, G_attrs, G_edges, levelVars, exportVars, viewVars>>

build_graph ==
  /\ pc = "loaded"
  /\ G_nodes' = AddRows(<<>>, df)
  /\ G_attrs' = AddRowAttrs(EmptyDict, df)
  /\ G_edges' = AddRowEdges(<<>>, AddRows(<<>>, df), df, parsed_deps, 1)
  /\ pc' = "built"
  /\ UNCHANGED <<df, parsed_deps, levelVars, exportVars, viewVars>>

\* the try block; on NetworkXUnfeasible the handler sets up the fallback
calculate_hierarchical_levels ==
  /\ pc = "built"
  /\ \E order \in {topological_sort(G_nodes, G_edges)} :
       /\ levels' = TryLevels(EmptyDict, G_edges, order)
       /\ IF Len(order) < Len(G_nodes)
          THEN /\ visited' = {}
               /\ \E roots \in {Roots(G_nodes, G_edges)} :
                    queue' = [i \in 1..Len(roots) |-> <<roots[i], 0>>]
               /\ pc' = "bfs"
          ELSE /\ UNCHANGED <<visited, queue>>
               /\ pc' = "levelled"
  /\ UNCHANGED <<dataVars, exportVars, viewVars>>

\* the iteration storing the level of the entry over what the node has
BfsStep_overwriting ==
  /\ pc = "bfs"
  /\ queue # <<>>
  /\ LET node  == queue[1][1]
         level == queue[1][2]
     IN IF node \in visited
        THEN /\ queue' = AfterPop(queue)
             /\ UNCHANGED <<visited, levels>>
        ELSE /\ visited' = visited \cup {node}
             /\ levels' = Put(levels, node, level)
             /\ queue' = AfterPop(queue)
                           \o UnvisitedSuccessors(G_edges, node, visited', level)
  /\ UNCHANGED <<pc, dataVars, exportVars, viewVars>>

\* one iteration of `while queue`
BfsStep ==
  /\ pc = "bfs"
  /\ queue # <<>>
  /\ LET node  == queue[1][1]
         level == queue[1][2]
     IN IF node \in visited
        THEN /\ queue' = AfterPop(queue)
             /\ UNCHANGED <<visited, levels>>
        ELSE /\ visited' = visited \cup {node}
             /\ levels' = Put(levels, node, Max({Get(levels, node, 0), level}))
             /\ queue' = AfterPop(queue)
                           \o UnvisitedSuccessors(G_edges, node, visited', level)
  /\ UNCHANGED <<pc, dataVars, exportVars, viewVars>>

\* the queue is empty: level 0 for the nodes never visited, and return
BfsReturn ==
  /\ pc = "bfs"
  /\ queue = <<>>
  /\ levels' = FillUnvisited(levels, G_nodes)
  /\ pc' = "levelled"
  /\ UNCHANGED <<dataVars, visited, queue, exportVars, viewVars>>

inject_custom_controls ==
  /\ pc = "levelled"
  /\ cycles' = simple_cycles(G_nodes, G_edges)
  /\ has_cycles' = (Cardinality(cycles') > 0)
  /\ node_data_js' = NodeDataJs(G_nodes, G_attrs, G_edges, CycleNodes(cycles'))
  /\ subgraph_data' = SubgraphData(G_nodes, G_edges)
  /\ cycles_js' \in FirstCycles(cycles')
  /\ pc' = "html"
  /\ UNCHANGED <<dataVars, levelVars, viewVars>>

(***************************************************************************)
(* The page script                                                         *)
(***************************************************************************)
\* a view context; a field the script leaves out is Null
Context(type, node, count) ==
  [type |-> type, node |-> node, count |-> count,
   area |-> Null, priority |-> Null, version |-> Null, query |-> Null]

\* { type: 'filter', area, priority, version }
FilterContext(areaFilter, priorityFilter, versionFilter) ==
  [type |-> "filter", node |-> Null, count |-> 0,
   area |-> areaFilter, priority |-> priorityFilter, version |-> versionFilter,
   query |-> Null]

\* { type: 'search', query, count }
SearchContext(input, count) ==
  [type |-> "search", node |-> Null, count |-> count,
   area |-> Null, priority |-> Null, version |-> Null, query |-> input]

\* Object.keys(nodeData)
NodeKeys == DOMAIN node_data_js

\* the script runs: its state declarations, then initializeApp
initializeApp ==
  /\ pc = "html"
  /\ selectedNodeId' = Null
  /\ visibleNodeIds' = NodeKeys
  /\ currentViewContext' = Context("all", Null, 0)
  /\ tooltipPinned' = FALSE
  /\ UNCHANGED <<tooltipDisplay, tooltipPinnedClass>>
  /\ toast' = "success"
  /\ pc' = "page"
  /\ UNCHANGED <<dataVars, levelVars, exportVars>>

\* network.on('click') on a node that is drawn
clickNode ==
  /\ pc = "page"
  /\ \E nodeId \in visibleNodeIds :
       /\ selectedNodeId' = nodeId
       /\ IF nodeId \in NodeKeys
          THEN /\ tooltipDisplay' = "block"
               /\ tooltipPinnedClass' = TRUE
               /\ tooltipPinned' = TRUE
          ELSE UNCHANGED <<tooltipDisplay, tooltipPinnedClass, tooltipPinned>>
  /\ toast' = "none"
  /\ UNCHANGED <<pc, dataVars, levelVars, exportVars,
                 visibleNodeIds, currentViewContext>>

\* network.on('click') on empty space
clickEmpty ==
  /\ pc = "page"
  /\ selectedNodeId' = Null
  /\ tooltipPinned' = FALSE
  /\ tooltipPinnedClass' = FALSE
  /\ tooltipDisplay' = "none"
  /\ toast' = "none"
  /\ UNCHANGED <<pc, dataVars, levelVars, exportVars,
                 visibleNodeIds, currentViewContext>>

\* the handler taking the cycles out of the list as it collects their nodes
\* network.on('hoverNode'): the pointer comes over a node that is drawn
network_on_hoverNode ==
  /\ pc = "page"
  /\ \E nodeId \in visibleNodeIds :
       IF tooltipPinned \/ nodeId \notin NodeKeys
       THEN UNCHANGED tooltipDisplay
       ELSE tooltipDisplay' = "block"
  /\ toast' = "none"
  /\ UNCHANGED <<pc, dataVars, levelVars, exportVars, selectedNodeId,
                 visibleNodeIds, currentViewContext, tooltipPinned,
                 tooltipPinnedClass>>

\* network.on('blurNode'): the pointer leaves a node
network_on_blurNode ==
  /\ pc = "page"
  /\ IF ~tooltipPinned
     THEN tooltipDisplay' = "none"
     ELSE UNCHANGED tooltipDisplay
  /\ toast' = "none"
  /\ UNCHANGED <<pc, dataVars, levelVars, exportVars, selectedNodeId,
                 visibleNodeIds, currentViewContext, tooltipPinned,
                 tooltipPinnedClass>>

showCycleNodes_draining ==
  /\ pc = "page"
  /\ IF ~has_cycles \/ Cardinality(cycles_js) = 0
     THEN /\ toast' = "info"
          /\ UNCHANGED <<visibleNodeIds, currentViewContext, cycles_js>>
     ELSE /\ visibleNodeIds' = UNION {Range(cycle) : cycle \in cycles_js}
          /\ currentViewContext' = Context("cycles", Null, Cardinality(cycles_js))
          /\ cycles_js' = {}
          /\ toast' = "warning"
  /\ UNCHANGED <<pc, dataVars, levelVars, cycles, has_cycles, node_data_js,
                 subgraph_data, selectedNodeId,
                 tooltipPinned, tooltipDisplay, tooltipPinnedClass>>

showCycleNodes ==
  /\ pc = "page"
  /\ IF ~has_cycles \/ Cardinality(cycles_js) = 0
     THEN /\ toast' = "info"
          /\ UNCHANGED <<visibleNodeIds, currentViewContext>>
     ELSE /\ visibleNodeIds' = UNION {Range(cycle) : cycle \in cycles_js}
          /\ currentViewContext' = Context("cycles", Null, Cardinality(cycles_js))
          /\ toast' = "warning"
  /\ UNCHANGED <<pc, dataVars, levelVars, exportVars, selectedNodeId,
                 tooltipPinned, tooltipDisplay, tooltipPinnedClass>>

\* the lookup reading the other of the two lists
SubgraphList_swapped(field) ==
  IF selectedNodeId \in DOMAIN subgraph_data
  THEN subgraph_data[selectedNodeId][IF field = "ancestors" THEN "descendants"
                                     ELSE "ancestors"]
  ELSE {}

\* subgraphData[selectedNodeId]?.ancestors || []
SubgraphList(field) ==
  IF selectedNodeId \in DOMAIN subgraph_data
  THEN subgraph_data[selectedNodeId][field] ELSE {}

showAncestors ==
  /\ pc = "page"
  /\ IF selectedNodeId = Null
     THEN /\ toast' = "warning"
          /\ UNCHANGED <<visibleNodeIds, currentViewContext>>
     ELSE /\ visibleNodeIds' = {selectedNodeId} \cup SubgraphList("ancestors")
          /\ currentViewContext' = Context("ancestors", selectedNodeId, 0)
          /\ toast' = "info"
  /\ UNCHANGED <<pc, dataVars, levelVars, exportVars, selectedNodeId,
                 tooltipPinned, tooltipDisplay, tooltipPinnedClass>>

showDescendants ==
  /\ pc = "page"
  /\ IF selectedNodeId = Null
     THEN /\ toast' = "warning"
          /\ UNCHANGED <<visibleNodeIds, currentViewContext>>
     ELSE /\ visibleNodeIds' = {selectedNodeId} \cup SubgraphList("descendants")
          /\ currentViewContext' = Context("descendants", selectedNodeId, 0)
          /\ toast' = "info"
  /\ UNCHANGED <<pc, dataVars, levelVars, exportVars, selectedNodeId,
                 tooltipPinned, tooltipDisplay, tooltipPinnedClass>>

\* the loop that follows the edges in one direction only
NeighborSet_outgoing(edges, id) ==
  {id} \cup {edge[2] : edge \in {e \in Range(edges) : e[1] = id}}

\* neighbors = new Set([selectedNodeId]), then the loop over edges.get()
NeighborSet(edges, id) ==
  {id}
    \cup {edge[2] : edge \in {e \in Range(edges) : e[1] = id}}
    \cup {edge[1] : edge \in {e \in Range(edges) : e[2] = id}}

\* edges.get(): the edges handed to the network, one per edge of G
showNeighborhood ==
  /\ pc = "page"
  /\ IF selectedNodeId = Null
     THEN /\ toast' = "warning"
          /\ UNCHANGED <<visibleNodeIds, currentViewContext>>
     ELSE /\ visibleNodeIds' = NeighborSet(G_edges, selectedNodeId)
          /\ currentViewContext' = Context("neighborhood", selectedNodeId, 0)
          /\ toast' = "info"
  /\ UNCHANGED <<pc, dataVars, levelVars, exportVars, selectedNodeId,
                 tooltipPinned, tooltipDisplay, tooltipPinnedClass>>

\* the options of the three selects: "" (all) and the values offered
EmptyString == <<>>

areas == {G_attrs[n].area : n \in Range(G_nodes)}

priorities == {AltaP0, MediaP1, BajaP2}

versions == {G_attrs[n].version : n \in Range(G_nodes)}

\* the test with the three dimensions joined by `or`
Matches_any(data, areaFilter, priorityFilter, versionFilter) ==
  LET matchArea     == areaFilter = EmptyString \/ data.area = areaFilter
      matchPriority == priorityFilter = EmptyString \/ data.prioridad = priorityFilter
      matchVersion  == versionFilter = EmptyString \/ data.version = versionFilter
  IN matchArea \/ matchPriority \/ matchVersion

\* matchArea && matchPriority && matchVersion
Matches(data, areaFilter, priorityFilter, versionFilter) ==
  LET matchArea     == areaFilter = EmptyString \/ data.area = areaFilter
      matchPriority == priorityFilter = EmptyString \/ data.prioridad = priorityFilter
      matchVersion  == versionFilter = EmptyString \/ data.version = versionFilter
  IN matchArea /\ matchPriority /\ matchVersion

\* the handler filtering the nodes that are visible already
applyFilters_within_view ==
  /\ pc = "page"
  /\ \E areaFilter \in {EmptyString} \cup areas :
     \E priorityFilter \in {EmptyString} \cup priorities :
     \E versionFilter \in {EmptyString} \cup versions :
       /\ visibleNodeIds' =
            {nodeId \in visibleNodeIds :
               Matches(node_data_js[nodeId], areaFilter, priorityFilter, versionFilter)}
       /\ currentViewContext' =
            FilterContext(areaFilter, priorityFilter, versionFilter)
  /\ toast' = "none"
  /\ UNCHANGED <<pc, dataVars, levelVars, exportVars, selectedNodeId,
                 tooltipPinned, tooltipDisplay, tooltipPinnedClass>>

\* the change handler of the three selects, whose values it reads
applyFilters ==
  /\ pc = "page"
  /\ \E areaFilter \in {EmptyString} \cup areas :
     \E priorityFilter \in {EmptyString} \cup priorities :
     \E versionFilter \in {EmptyString} \cup versions :
       /\ visibleNodeIds' =
            {nodeId \in NodeKeys :
               Matches(node_data_js[nodeId], areaFilter, priorityFilter, versionFilter)}
       /\ currentViewContext' =
            FilterContext(areaFilter, priorityFilter, versionFilter)
  /\ toast' = "none"
  /\ UNCHANGED <<pc, dataVars, levelVars, exportVars, selectedNodeId,
                 tooltipPinned, tooltipDisplay, tooltipPinnedClass>>

\* the letters that have two cases
LowerLetters ==
  <<"a", "b", "c", "d", "e", "f", "g", "h", "i", "j", "k", "l", "m", "n",
    "o", "p", "q", "r", "s", "t", "u", "v", "w", "x", "y", "z">>

UpperLetters ==
  <<"A", "B", "C", "D", "E", "F", "G", "H", "I", "J", "K", "L", "M", "N",
    "O", "P", "Q", "R", "S", "T", "U", "V", "W", "X", "Y", "Z">>

LetterIndex(letters, c) == CHOOSE i \in 1..Len(letters) : letters[i] = c

\* the other case of each letter
UpperOf == [c \in Range(LowerLetters) |-> UpperLetters[LetterIndex(LowerLetters, c)]]

LowerOf == [c \in Range(UpperLetters) |-> LowerLetters[LetterIndex(UpperLetters, c)]]

\* String.prototype.toUpperCase
toUpperCase(s) ==
  [k \in 1..Len(s) |-> IF s[k] \in DOMAIN UpperOf THEN UpperOf[s[k]] ELSE s[k]]

\* String.prototype.toLowerCase
toLowerCase(s) ==
  [k \in 1..Len(s) |-> IF s[k] \in DOMAIN LowerOf THEN LowerOf[s[k]] ELSE s[k]]

\* String.prototype.includes
includes(text, query) ==
  \E i \in 1..(Len(text) - Len(query) + 1) :
    SubSeq(text, i, i + Len(query) - 1) = query

\* what is typed into the search box: blanks, the identifier of the first row
\* in lower case, an identifier of no row, a shorter identifier of no row with
\* which the identifiers of the rows begin, and the default text of the nodes
SearchInputs ==
  { <<" ">>, <<"r", "m", "-", "0", "0", "1">>, <<"R", "M", "-", "0", "9", "9">>,
    <<" ", "R", "M", "-", "0", "0">>, <<"n", "/", "a">> }

\* the test of focusNode for an exact identifier, always passing
ExactMatch_always(upperInput) == TRUE

\* if (nodeData[upperInput])
ExactMatch(upperInput) == upperInput \in NodeKeys

\* the test of the full-text search on one key of nodeData
TextMatch(id, query) ==
  \/ includes(toLowerCase(id), query)
  \/ includes(toLowerCase(node_data_js[id].funcionalidad), query)
  \/ includes(toLowerCase(node_data_js[id].requisito), query)

\* the full-text search: the keys of nodeData, in their order, whose
\* identifier, funcionalidad or requisito holds the query
FullTextMatches(query) ==
  SelectSeq(G_nodes, LAMBDA id : TextMatch(id, query))

\* focusOnNode: nothing happens for an identifier that nodeData lacks
focusOnNode(nodeId) ==
  IF nodeId \in NodeKeys
  THEN /\ selectedNodeId' = nodeId
       /\ toast' = "success"
  ELSE /\ UNCHANGED selectedNodeId
       /\ toast' = "none"

\* the search button, or Enter in the search box holding the text raw
focusNodeWith(raw) ==
  /\ pc = "page"
  /\ LET input == strip(raw)
     IN IF input = <<>>
        THEN /\ toast' = "warning"
             /\ UNCHANGED <<selectedNodeId, visibleNodeIds, currentViewContext>>
        ELSE IF ExactMatch(toUpperCase(input))
        THEN /\ focusOnNode(toUpperCase(input))
             /\ UNCHANGED <<visibleNodeIds, currentViewContext>>
        ELSE \E matches \in {FullTextMatches(toLowerCase(input))} :
               IF Len(matches) = 1
               THEN /\ focusOnNode(matches[1])
                    /\ UNCHANGED <<visibleNodeIds, currentViewContext>>
               ELSE IF Len(matches) > 1
               THEN /\ visibleNodeIds' = Range(matches)
                    /\ currentViewContext' = SearchContext(input, Len(matches))
                    /\ toast' = "info"
                    /\ UNCHANGED selectedNodeId
               ELSE /\ toast' = "error"
                    /\ UNCHANGED <<selectedNodeId, visibleNodeIds,
                                   currentViewContext>>
  /\ UNCHANGED <<pc, dataVars, levelVars, exportVars,
                 tooltipPinned, tooltipDisplay, tooltipPinnedClass>>

focusNode == \E raw \in SearchInputs : focusNodeWith(raw)

\* a click on an entry of the autocomplete list (any key of nodeData can be
\* listed) or of the most connected nodes (nodes that are visible)
clickListedNode ==
  /\ pc = "page"
  /\ \E id \in NodeKeys : focusOnNode(id)
  /\ UNCHANGED <<pc, dataVars, levelVars, exportVars, visibleNodeIds,
                 currentViewContext, tooltipPinned, tooltipDisplay,
                 tooltipPinnedClass>>

\* a click on a row of the table, which lists the visible nodes
clickTableRow ==
  /\ pc = "page"
  /\ \E id \in visibleNodeIds : selectedNodeId' = id
  /\ toast' = "none"
  /\ UNCHANGED <<pc, dataVars, levelVars, exportVars, visibleNodeIds,
                 currentViewContext, tooltipPinned, tooltipDisplay,
                 tooltipPinnedClass>>

resetView ==
  /\ pc = "page"
  /\ visibleNodeIds' = NodeKeys
  /\ currentViewContext' = Context("all", Null, 0)
  /\ selectedNodeId' = Null
  /\ tooltipDisplay' = "none"
  /\ tooltipPinnedClass' = FALSE
  /\ toast' = "info"
  /\ UNCHANGED <<pc, dataVars, levelVars, exportVars, tooltipPinned>>

(***************************************************************************)
(* Specifications                                                          *)
(***************************************************************************)
NextParse == load_requirements

NextRows ==
  \/ load_requirements
  \/ build_graph

Next ==
  \/ load_requirements
  \/ build_graph
  \/ calculate_hierarchical_levels
  \/ BfsStep
  \/ BfsReturn
  \/ inject_custom_controls

NextUI ==
  \/ load_requirements
  \/ build_graph
  \/ calculate_hierarchical_levels
  \/ BfsStep
  \/ BfsReturn
  \/ inject_custom_controls
  \/ initializeApp
  \/ clickNode
  \/ clickEmpty
  \/ showCycleNodes
  \/ showAncestors
  \/ showDescendants
  \/ showNeighborhood
  \/ applyFilters
  \/ focusNode
  \/ clickListedNode
  \/ clickTableRow
  \/ resetView

\* the batch run, then the handlers that show the cycles and clear the view
NextCycles ==
  \/ load_requirements
  \/ build_graph
  \/ calculate_hierarchical_levels
  \/ BfsStep
  \/ BfsReturn
  \/ inject_custom_controls
  \/ initializeApp
  \/ clickNode
  \/ clickEmpty
  \/ showCycleNodes
  \/ resetView

\* the batch run, then the pointer: clicks, hovering and the reset
NextTooltip ==
  \/ load_requirements
  \/ build_graph
  \/ calculate_hierarchical_levels
  \/ BfsStep
  \/ BfsReturn
  \/ inject_custom_controls
  \/ initializeApp
  \/ clickNode
  \/ clickEmpty
  \/ network_on_hoverNode
  \/ network_on_blurNode
  \/ resetView

\* the parser applied to one cell
SpecParse == InitParse /\ [][NextParse]_vars

\* the batch run on every small table
Spec == Init /\ [][Next]_vars

\* calculate_hierarchical_levels is sequential code: once called it runs on,
\* and each turn of its loop that can be taken is taken
FairSpec ==
  /\ Spec
  /\ WF_vars(calculate_hierarchical_levels)
  /\ WF_vars(BfsStep)
  /\ WF_vars(BfsReturn)

\* loading and building on the tables with repeated identifiers
SpecRows == InitRows /\ [][NextRows]_vars

\* the batch run on the tables of the fallback
SpecFallback == InitFallback /\ [][Next]_vars

\* loading and building on the tables of detailed texts
SpecText == InitText /\ [][NextRows]_vars

\* the tables of self-dependent rows, up to one cycle over the limit
SpecCycles == InitCycles /\ [][NextCycles]_vars

\* the batch run on the uniform tables, then the pointer on the page
SpecTooltip == InitUI /\ [][NextTooltip]_vars

\* the batch run on the uniform tables, then the page
SpecUI == InitUI /\ [][NextUI]_vars

(***************************************************************************)
(* Vocabulary of the properties, written without the operators above       *)
(***************************************************************************)
AllDigits(ds) == ds # <<>> /\ \A k \in 1..Len(ds) : ds[k] \in Digits

RECURSIVE Pow10(_)
Pow10(k) == IF k = 0 THEN 1 ELSE 10 * Pow10(k - 1)

RECURSIVE WeightedSum(_, _)
WeightedSum(ds, k) ==
  IF k > Len(ds) THEN 0
  ELSE DigitVal(ds[k]) * Pow10(Len(ds) - k) + WeightedSum(ds, k + 1)

\* the number a run of digits denotes
NumberOf(ds) == WeightedSum(ds, 1)

\* an identifier: the prefix RM- followed by digits only
IsIdentifier(t) ==
  /\ Len(t) >= 4
  /\ SubSeq(t, 1, 3) = RMPrefix
  /\ AllDigits(SubSeq(t, 4, Len(t)))

IdNumber(t) == NumberOf(SubSeq(t, 4, Len(t)))

\* the text is exactly RM-<digits>..RM-<digits>, the first run i digits long
IsRangeWith(t, i) ==
  /\ Len(t) >= i + 9
  /\ SubSeq(t, 1, 3) = RMPrefix
  /\ AllDigits(SubSeq(t, 4, 3 + i))
  /\ SubSeq(t, 4 + i, 8 + i) = DotDotRM
  /\ AllDigits(SubSeq(t, 9 + i, Len(t)))

IsRangeText(t) == t # NaN /\ \E i \in 1..Len(t) : IsRangeWith(t, i)

RangeStart(t) ==
  NumberOf(SubSeq(t, 4, 3 + (CHOOSE i \in 1..Len(t) : IsRangeWith(t, i))))

RangeEnd(t) ==
  NumberOf(SubSeq(t, 9 + (CHOOSE i \in 1..Len(t) : IsRangeWith(t, i)), Len(t)))

\* rows whose cells have been parsed
Parsed == pc \notin {"csv", "raised"}

Rows == 1..Len(df)

Cell(i) == df[i].Dependencias

(***************************************************************************)
(* C1. A dependency cell written in range form RM-<start>..RM-<end> with   *)
(* start <= end parses to the identifiers numbered start, start+1, ...,    *)
(* end: each once, in ascending order, and nothing else.                   *)
(***************************************************************************)
C1_RangeExpandsInclusive ==
  Parsed =>
    \A i \in Rows :
      (IsRangeText(Cell(i)) /\ RangeStart(Cell(i)) <= RangeEnd(Cell(i))) =>
        /\ Len(parsed_deps[i]) = RangeEnd(Cell(i)) - RangeStart(Cell(i)) + 1
        /\ \A k \in 1..Len(parsed_deps[i]) :
             /\ IsIdentifier(parsed_deps[i][k])
             /\ IdNumber(parsed_deps[i][k]) = RangeStart(Cell(i)) + k - 1

\* a range of several identifiers has been expanded
C1_Witness ==
  /\ Parsed
  /\ \E i \in Rows :
       /\ IsRangeText(Cell(i))
       /\ RangeStart(Cell(i)) < RangeEnd(Cell(i))
       /\ Len(parsed_deps[i]) >= 2

(***************************************************************************)
(* C2. A dependency cell that is missing (NaN), empty, made of whitespace  *)
(* only, or the placeholder dash parses to the empty list, and the call    *)
(* raises nothing.                                                         *)
(***************************************************************************)
IsBlankCell(c) ==
  \/ c = NaN
  \/ c = EmDash
  \/ \A k \in 1..Len(c) : c[k] \in Whitespace

C2_BlankParsesToEmpty ==
  /\ (\E i \in Rows : IsBlankCell(Cell(i))) => pc # "raised"
  /\ Parsed => \A i \in Rows : IsBlankCell(Cell(i)) => parsed_deps[i] = <<>>

\* a missing cell has been parsed
C2_Witness == Parsed /\ \E i \in Rows : Cell(i) = NaN /\ parsed_deps[i] = <<>>

(***************************************************************************)
(* Vocabulary of the graph properties                                      *)
(***************************************************************************)
Built == pc \in {"built", "bfs", "levelled", "html", "page"}

Levelled == pc \in {"levelled", "html", "page"}

Exported == pc \in {"html", "page"}

Nodes == Range(G_nodes)

Edges == Range(G_edges)

\* the identifiers borne by the rows
RowIds == {df[i].ID : i \in Rows}

\* the identifiers named by the parsed dependencies
NamedIds == UNION {Range(parsed_deps[i]) : i \in Rows}

\* D is in the parsed dependency list of a row with identifier R
DependsOn(R, D) == \E i \in Rows : df[i].ID = R /\ D \in Range(parsed_deps[i])

\* the pairs <<a, c>> with <<a, b>> in R and <<b, c>> in S for some b
Join(R, S) == {<<q[1][1], q[2][2]>> : q \in {p \in R \X S : p[1][2] = p[2][1]}}

\* pairs joined by a directed path of at least one edge: the edge relation
\* closed under composition
RECURSIVE ClosureFrom(_)
ClosureFrom(R) ==
  LET R2 == R \cup Join(R, R)
  IN IF R2 = R THEN R ELSE ClosureFrom(R2)

PathPairs == ClosureFrom(Edges)

HasPath(n, m) == <<n, m>> \in PathPairs

OnCycle(n) == HasPath(n, n)

Acyclic == \A n \in Nodes : ~OnCycle(n)

(***************************************************************************)
(* C3. The built graph has an edge D -> R exactly when D is in the parsed  *)
(* dependency list of a row with identifier R and D is the identifier of   *)
(* some row (D = R included); so both ends of every edge are nodes.        *)
(***************************************************************************)
C3_EdgesAreKnownDependencies ==
  Built =>
    /\ Nodes = RowIds
    /\ \A D \in RowIds \cup NamedIds \cup {e[1] : e \in Edges} :
         \A R \in RowIds \cup {e[2] : e \in Edges} :
           <<D, R>> \in Edges <=> (DependsOn(R, D) /\ D \in RowIds)
    /\ \A e \in Edges : e[1] \in Nodes /\ e[2] \in Nodes

\* a graph with a self-loop, built from rows that also name an unknown identifier
C3_Witness ==
  /\ Built
  /\ \E R \in Nodes : <<R, R>> \in Edges
  /\ \E D \in NamedIds : D \notin RowIds

Anc(n) == subgraph_data[n].ancestors

Desc(n) == subgraph_data[n].descendants

PredsOf(n) == {e[1] : e \in {x \in Edges : x[2] = n}}

C7_LevelsOfAcyclicGraph ==
  (Levelled /\ Acyclic) =>
    /\ DOMAIN levels = Nodes
    /\ \A n \in Nodes :
         IF PredsOf(n) = {} THEN levels[n] = 0
         ELSE \E p \in PredsOf(n) :
                /\ levels[n] = levels[p] + 1
                /\ \A q \in PredsOf(n) : levels[q] <= levels[p]
    /\ \A e \in Edges : levels[e[1]] < levels[e[2]]

\* a node of level 2 that also has a predecessor of level 0
C7_Witness ==
  /\ Levelled /\ Acyclic
  /\ \E n \in Nodes : /\ levels[n] = 2
                      /\ \E p \in PredsOf(n) : levels[p] = 0

(***************************************************************************)
(* C8. For every graph (with cycles, self-loops, several disjoint cycles   *)
(* or no node of in-degree zero) calculate_hierarchical_levels terminates  *)
(* and returns a non-negative integer level for every node of the graph.   *)
(***************************************************************************)
LevelsReturned ==
  /\ pc = "levelled"
  /\ DOMAIN levels = Nodes
  /\ \A n \in Nodes : levels[n] \in Nat

C8_LevelsTerminate == (pc = "built") ~> LevelsReturned

\* the fallback has returned on a graph without a node of in-degree zero, in
\* which two nodes lie on two disjoint cycles and one was never visited
C8_Witness ==
  /\ LevelsReturned
  /\ \A n \in Nodes : PredsOf(n) # {}
  /\ \E n \in Nodes : \E m \in Nodes :
       /\ OnCycle(n) /\ OnCycle(m) /\ ~HasPath(n, m) /\ ~HasPath(m, n)
       /\ n \in visited /\ m \notin visited

(***************************************************************************)
(* C9. The in_cycle flag exported for a node is true exactly when the node *)
(* appears in at least one elementary cycle of the graph (a self-loop is a *)
(* cycle through its node); on an acyclic graph the cycle list is empty    *)
(* and every flag is false.                                                *)
(***************************************************************************)
\* the closed walks that repeat no node, as sequences of nodes
ElementaryCycles ==
  {c \in UNION {[1..k -> Nodes] : k \in 1..Cardinality(Nodes)} :
     /\ \A i \in DOMAIN c : \A j \in DOMAIN c : c[i] = c[j] => i = j
     /\ \A i \in DOMAIN c : <<c[i], c[(i % Len(c)) + 1]>> \in Edges}

C9_InCycleFlag ==
  Exported =>
    /\ \A n \in Nodes :
         node_data_js[n].in_cycle <=> \E c \in ElementaryCycles : n \in Range(c)
    /\ ElementaryCycles = {} =>
         /\ cycles = {}
         /\ ~has_cycles
         /\ \A n \in Nodes : ~node_data_js[n].in_cycle

\* one node flagged for its self-loop alone, another flagged for a cycle
\* through a second node
C9_Witness ==
  /\ Exported
  /\ \E n \in Nodes : /\ node_data_js[n].in_cycle
                      /\ \A c \in ElementaryCycles : n \in Range(c) => Len(c) = 1
  /\ \E n \in Nodes : node_data_js[n].in_cycle /\ <<n, n>> \notin Edges

(***************************************************************************)
(* C10. The node set shown by showCycleNodes equals the set of the nodes   *)
(* whose in_cycle flag is true, however many elementary cycles the graph   *)
(* has.                                                                    *)
(***************************************************************************)
C10_ShownAreTheFlaggedNodes ==
  (pc = "page" /\ currentViewContext.type = "cycles") =>
    visibleNodeIds = {n \in NodeKeys : node_data_js[n].in_cycle}

(***************************************************************************)
(* C11. For a selected node id, showAncestors makes the visible set        *)
(* exactly {id} united with ancestors[id], and showDescendants makes it    *)
(* exactly {id} united with descendants[id]; the two precomputed sets are  *)
(* the transitive closures, so the visible set is id with every node that  *)
(* reaches id (ancestors), or that id reaches (descendants).               *)
(***************************************************************************)
ViewType == currentViewContext.type

ViewNode == currentViewContext.node

C11_AncestorsAndDescendantsShown ==
  pc = "page" =>
    /\ ViewType = "ancestors" =>
         /\ ViewNode \in Nodes
         /\ visibleNodeIds = {ViewNode} \cup Anc(ViewNode)
         /\ visibleNodeIds = {ViewNode} \cup {n \in Nodes : HasPath(n, ViewNode)}
    /\ ViewType = "descendants" =>
         /\ ViewNode \in Nodes
         /\ visibleNodeIds = {ViewNode} \cup Desc(ViewNode)
         /\ visibleNodeIds = {ViewNode} \cup {n \in Nodes : HasPath(ViewNode, n)}

\* the ancestors of a node are shown, one of them no predecessor of the node
C11_Witness ==
  /\ pc = "page"
  /\ ViewType = "ancestors"
  /\ \E n \in visibleNodeIds : n # ViewNode /\ <<n, ViewNode>> \notin Edges
  /\ visibleNodeIds # Nodes

(***************************************************************************)
(* C13. For a selected node n, showNeighborhood makes the visible set      *)
(* exactly n plus every node joined to n by a single edge in either        *)
(* direction, and no other node: a node two edges away is not shown.       *)
(***************************************************************************)
Adjacent(n, m) == <<n, m>> \in Edges \/ <<m, n>> \in Edges

C13_NeighborhoodIsDepthOne ==
  (pc = "page" /\ ViewType = "neighborhood") =>
    /\ ViewNode \in Nodes
    /\ \A m \in Nodes :
         m \in visibleNodeIds <=> (m = ViewNode \/ Adjacent(ViewNode, m))
    /\ visibleNodeIds \subseteq Nodes

\* a neighbourhood with a predecessor and a successor of the node, while a
\* node two edges away stays hidden
C13_Witness ==
  /\ pc = "page"
  /\ ViewType = "neighborhood"
  /\ \E p \in visibleNodeIds : p # ViewNode /\ <<p, ViewNode>> \in Edges
  /\ \E q \in visibleNodeIds : q # ViewNode /\ <<ViewNode, q>> \in Edges
  /\ \E m \in Nodes \ visibleNodeIds :
       HasPath(m, ViewNode) \/ HasPath(ViewNode, m)

(***************************************************************************)
(* C14. applyFilters makes the visible set exactly the nodes whose area,   *)
(* priority and version each equal the corresponding filter value, an      *)
(* empty filter value matching every node on its dimension (the three      *)
(* dimensions are joined by AND).                                          *)
(***************************************************************************)
\* the attribute of the graph node on a dimension equals the filter value, or
\* the filter value is empty
Passes(value, filter) == filter = <<>> \/ value = filter

C14_FilterIsConjunction ==
  (pc = "page" /\ ViewType = "filter") =>
    \A n \in Nodes :
      n \in visibleNodeIds <=>
        /\ Passes(G_attrs[n].area, currentViewContext.area)
        /\ Passes(G_attrs[n].prioridad, currentViewContext.priority)
        /\ Passes(G_attrs[n].version, currentViewContext.version)

\* an area is chosen and the priority left empty: nodes of several priorities
\* are shown, and a node of another area is hidden
C14_Witness ==
  /\ pc = "page" /\ ViewType = "filter"
  /\ currentViewContext.area = Seguridad
  /\ currentViewContext.priority = <<>>
  /\ \E n \in visibleNodeIds : \E m \in visibleNodeIds :
       G_attrs[n].prioridad # G_attrs[m].prioridad
  /\ \E n \in Nodes \ visibleNodeIds : G_attrs[n].area = Unknown

(***************************************************************************)
(* C15. When several records share an identifier, the built graph has      *)
(* exactly one node for it and every attribute of that node is the one     *)
(* given by the last such record in input order.                           *)
(***************************************************************************)
\* the last row that bears the identifier of row i
LastRowOf(i) == CHOOSE j \in Rows :
                  /\ df[j].ID = df[i].ID
                  /\ \A k \in Rows : df[k].ID = df[i].ID => k <= j

\* the value a column gives to an attribute: the cell, or else the default
Given(cell, default) == IF cell = NaN THEN default ELSE cell

\* the detailed text as the node carries it: whole, or its first
\* RequisitoLimit characters and three dots
IsShownTextOf(shown, text) ==
  IF Len(text) <= RequisitoLimit THEN shown = text
  ELSE /\ Len(shown) = RequisitoLimit + 3
       /\ \A k \in 1..RequisitoLimit : shown[k] = text[k]
       /\ \A k \in (RequisitoLimit + 1)..(RequisitoLimit + 3) : shown[k] = "."

AttributesAreThoseOf(a, row) ==
  /\ a.area = Given(row.Area, Unknown)
  /\ a.funcionalidad = Given(row.Funcionalidad, NA)
  /\ IsShownTextOf(a.requisito, Given(row.Requisito_detallado, NA))
  /\ a.prioridad = Given(row.Prioridad, MediaP1)
  /\ a.estatus = Given(row.Estatus, NA)
  /\ a.version = Given(row.Version_objetivo, NA)
  /\ a.owner = Given(row.Owner, NA)
  /\ a.roles = Given(row.Roles, NA)
  /\ a.dependencias = Given(row.Dependencias, EmDash)

C15_LastRecordWins ==
  Built =>
    /\ DOMAIN G_attrs = Nodes
    /\ \A i \in Rows :
         /\ Cardinality({k \in 1..Len(G_nodes) : G_nodes[k] = df[i].ID}) = 1
         /\ AttributesAreThoseOf(G_attrs[df[i].ID], df[LastRowOf(i)])

\* an identifier borne by two rows that differ in area, detailed text and
\* dependency cell
C15_Witness ==
  /\ Built
  /\ \E i \in Rows : \E j \in Rows :
       /\ i < j /\ j = LastRowOf(i)
       /\ df[i].Area # df[j].Area
       /\ df[i].Requisito_detallado # df[j].Requisito_detallado
       /\ df[i].Dependencias # df[j].Dependencias
       /\ Len(G_attrs[df[i].ID].requisito) = RequisitoLimit + 3

(***************************************************************************)
(* C16. build_graph completes without raising for every record set, also   *)
(* when dependencies name unknown identifiers or the record itself and     *)
(* when identifiers repeat: from a loaded table the build can always be    *)
(* made and leads to the built graph; an unknown reference contributes no  *)
(* edge and no node.                                                       *)
(***************************************************************************)
\* identifiers that a dependency names and no row bears
UnknownReferences == NamedIds \ RowIds

BuiltWithoutUnknownReferences ==
  Built =>
    /\ Nodes = RowIds
    /\ \A D \in UnknownReferences :
         /\ D \notin Nodes
         /\ \A e \in Edges : e[1] # D /\ e[2] # D
    /\ \A i \in Rows : \A D \in Range(parsed_deps[i]) :
         D \in RowIds => <<D, df[i].ID>> \in Edges

C16_BuildNeverFails ==
  /\ [](pc = "loaded" => ENABLED build_graph)
  /\ [][pc = "loaded" => pc' = "built"]_vars
  /\ []BuiltWithoutUnknownReferences

\* a graph built from rows with a repeated identifier, a row that names
\* itself and a row that names an unknown identifier
C16_Witness ==
  /\ pc = "built"
  /\ \E i \in Rows : \E j \in Rows : i # j /\ df[i].ID = df[j].ID
  /\ \E i \in Rows : df[i].ID \in Range(parsed_deps[i])
  /\ UnknownReferences # {}

(***************************************************************************)
(* C12. As stated: a query addressed to an identifier that is not a node   *)
(* reports an error and produces no result set, never a partial or         *)
(* degraded one.  Identifiers reach the page through the search box alone, *)
(* so: no view of the page is ever the result of a search for an           *)
(* identifier that is not a node.                                          *)
(***************************************************************************)
\* the text is an identifier by its form and no node bears it
UnknownIdentifier(t) == t # Null /\ IsIdentifier(t) /\ t \notin Nodes

QueryViews == {"ancestors", "descendants", "neighborhood"}

\* no text of any node holds the typed text, whatever the case of the letters
MatchesNothing(raw) ==
  /\ strip(raw) # <<>>
  /\ \E typed \in {toLowerCase(strip(raw))} :
       \A n \in Nodes :
         /\ ~includes(toLowerCase(n), typed)
         /\ ~includes(toLowerCase(G_attrs[n].funcionalidad), typed)
         /\ ~includes(toLowerCase(G_attrs[n].requisito), typed)

QueriesConcernNodes ==
  pc = "page" =>
    /\ selectedNodeId \in Nodes \cup {Null}
    /\ visibleNodeIds \subseteq Nodes
    /\ ViewType \in QueryViews => ViewNode \in Nodes
    /\ ViewType = "search" =>
         /\ Cardinality(visibleNodeIds) > 1
         /\ \A n \in visibleNodeIds :
              \/ includes(toLowerCase(n), toLowerCase(currentViewContext.query))
              \/ includes(toLowerCase(G_attrs[n].funcionalidad),
                          toLowerCase(currentViewContext.query))
              \/ includes(toLowerCase(G_attrs[n].requisito),
                          toLowerCase(currentViewContext.query))

UnknownSearchIsAnError ==
  \A raw \in SearchInputs :
    (MatchesNothing(raw) /\ focusNodeWith(raw)) =>
      /\ toast' = "error"
      /\ UNCHANGED <<selectedNodeId, visibleNodeIds, currentViewContext>>

QueryWithoutSelectionWarns ==
  (selectedNodeId = Null /\ (showAncestors \/ showDescendants \/ showNeighborhood)) =>
    /\ toast' = "warning"
    /\ UNCHANGED <<selectedNodeId, visibleNodeIds, currentViewContext>>

C17_ParseNeverRaises == pc # "raised"

(***************************************************************************)
(* C18. A dependency text that does not begin with a range form parses to  *)
(* the identifiers written in it: one entry for each place of the text     *)
(* where the prefix RM- is followed by a digit, the entry being the prefix *)
(* with all the digits that follow it, the entries in the order of their   *)
(* places; an identifier written k times appears k times.                  *)
(***************************************************************************)
\* some beginning of the text is a range form
BeginsWithRange(t) == \E n \in 1..Len(t) : IsRangeText(SubSeq(t, 1, n))

\* the places of the text where an identifier begins
TokenStarts(t) ==
  {p \in 1..(Len(t) - 3) : SubSeq(t, p, p + 2) = RMPrefix /\ t[p + 3] \in Digits}

\* the identifier that begins at place p: the prefix and every digit up to
\* the first character that is no digit
TokenAt(t, p) ==
  SubSeq(t, p, CHOOSE q \in (p + 3)..Len(t) :
                 /\ \A k \in (p + 3)..q : t[k] \in Digits
                 /\ (q = Len(t) \/ t[q + 1] \notin Digits))

\* the n-th place of S, counted from the left
NthOf(S, n) == CHOOSE p \in S : Cardinality({x \in S : x < p}) = n - 1

C18_ScanKeepsOrderAndDuplicates ==
  Parsed =>
    \A i \in Rows :
      (Cell(i) # NaN /\ ~BeginsWithRange(Cell(i))) =>
        /\ Len(parsed_deps[i]) = Cardinality(TokenStarts(Cell(i)))
        /\ \A n \in 1..Len(parsed_deps[i]) :
             parsed_deps[i][n] = TokenAt(Cell(i), NthOf(TokenStarts(Cell(i)), n))

\* a text that is no range names one identifier, another, then the first
\* again: the first is listed twice, around the other
C18_Witness ==
  /\ Parsed
  /\ \E i \in Rows :
       /\ Cell(i) # NaN
       /\ ~BeginsWithRange(Cell(i))
       /\ Len(parsed_deps[i]) = 3
       /\ parsed_deps[i][1] = parsed_deps[i][3]
       /\ parsed_deps[i][1] # parsed_deps[i][2]

(***************************************************************************)
(* C19. As stated: a dependency text that holds a range form, at whatever  *)
(* place, parses to the expansion of that range and to nothing else.       *)
(***************************************************************************)
\* a range form begins at place a of the text
RangeAt(t, a) == \E b \in a..Len(t) : IsRangeText(SubSeq(t, a, b))

\* the range form that begins at place a, with all the digits of its end
TheRangeAt(t, a) ==
  SubSeq(t, a, CHOOSE b \in a..Len(t) :
                 /\ IsRangeText(SubSeq(t, a, b))
                 /\ (b = Len(t) \/ t[b + 1] \notin Digits))

\* the list names the numbers from the start of the range to its end, in order
IsExpansionOf(list, r) ==
  /\ Len(list) = IF RangeEnd(r) < RangeStart(r) THEN 0
                 ELSE RangeEnd(r) - RangeStart(r) + 1
  /\ \A k \in 1..Len(list) :
       /\ IsIdentifier(list[k])
       /\ IdNumber(list[k]) = RangeStart(r) + k - 1

C19_Original ==
  Parsed =>
    \A i \in Rows :
      Cell(i) # NaN =>
        \A a \in 1..Len(Cell(i)) :
          RangeAt(Cell(i), a) =>
            IsExpansionOf(parsed_deps[i], TheRangeAt(Cell(i), a))

(***************************************************************************)
(* C19, amended: a dependency text that begins with a range form parses to *)
(* the expansion of that range and to nothing else, whatever follows the   *)
(* range in the text.  A range form that begins further on in a text that  *)
(* does not begin with one is not expanded: its two ends are listed as     *)
(* they are written, the end right after the start, among the other        *)
(* identifiers of the text.                                                *)
(***************************************************************************)
\* the two identifiers written in a range form
StartToken(r) == SubSeq(r, 1, (CHOOSE k \in 1..Len(r) : r[k] = ".") - 1)

EndToken(r) == SubSeq(r, (CHOOSE k \in 1..Len(r) : r[k] = ".") + 2, Len(r))

C19_LeadingRangeTakesPrecedence ==
  Parsed =>
    \A i \in Rows :
      Cell(i) # NaN =>
        /\ RangeAt(Cell(i), 1) =>
             IsExpansionOf(parsed_deps[i], TheRangeAt(Cell(i), 1))
        /\ ~RangeAt(Cell(i), 1) =>
             \A a \in 2..Len(Cell(i)) :
               RangeAt(Cell(i), a) =>
                 \E n \in 1..(Len(parsed_deps[i]) - 1) :
                   /\ parsed_deps[i][n] = StartToken(TheRangeAt(Cell(i), a))
                   /\ parsed_deps[i][n + 1] = EndToken(TheRangeAt(Cell(i), a))
                   /\ n = Cardinality({p \in TokenStarts(Cell(i)) : p < a}) + 1

\* a range of three followed by another identifier has been expanded and the
\* other identifier left out
C19_Witness ==
  /\ Parsed
  /\ \E i \in Rows :
       /\ Cell(i) # NaN
       /\ RangeAt(Cell(i), 1)
       /\ Len(TheRangeAt(Cell(i), 1)) < Len(Cell(i))
       /\ \E p \in TokenStarts(Cell(i)) :
            /\ p > Len(TheRangeAt(Cell(i), 1))
            /\ \A k \in 1..Len(parsed_deps[i]) :
                 IdNumber(parsed_deps[i][k]) # IdNumber(TokenAt(Cell(i), p))
       /\ Len(parsed_deps[i]) = 3

(***************************************************************************)
(* C20. Every identifier of the expansion of a range has as many digits as *)
(* the start of the range is written with, so all the identifiers of one   *)
(* expansion have the same width.                                          *)
(***************************************************************************)
C20_PaddedToStartWidth ==
  Parsed =>
    \A i \in Rows :
      (Cell(i) # NaN /\ RangeAt(Cell(i), 1)) =>
        \A k \in 1..Len(parsed_deps[i]) :
          Len(parsed_deps[i][k]) = Len(StartToken(TheRangeAt(Cell(i), 1)))

(***************************************************************************)
(* C21. No operation of the page changes the analysis data: once the page  *)
(* runs, every step leaves the attributes of the nodes, the edges, the     *)
(* ancestors and descendants of every node, the list of cycles and the     *)
(* cycle flag as they were exported; only the state of the view changes.   *)
(***************************************************************************)
\* the data the page was given
Bundle ==
  <<G_nodes, G_attrs, G_edges, node_data_js, subgraph_data, cycles_js, has_cycles>>

C21_BundleIsReadOnly == [][pc = "page" => UNCHANGED Bundle]_vars

\* the nodes on cycles are shown and the list of cycles is still there
C21_Witness ==
  /\ pc = "page"
  /\ ViewType = "cycles"
  /\ toast = "warning"
  /\ cycles_js # {}
  /\ visibleNodeIds = UNION {Range(cycle) : cycle \in cycles_js}

(***************************************************************************)
(* C22. For every record, the detailed text carried by its node is the     *)
(* text of the record when that has at most 300 characters, and otherwise  *)
(* the first 300 characters of it followed by three dots; a record without *)
(* detailed text gets 'N/A'.                                               *)
(***************************************************************************)
C22_DetailedTextCutAt300 ==
  Built =>
    \A i \in Rows :
      \E text \in {df[i].Requisito_detallado} :
      \E stored \in {G_attrs[df[i].ID].requisito} :
        /\ text = NaN => stored = NA
        /\ (text # NaN /\ Len(text) <= 300) => stored = text
        /\ (text # NaN /\ Len(text) > 300) =>
             stored = SubSeq(text, 1, 300) \o <<".", ".", ".">>

\* one record with a text of exactly 300 characters, kept whole, and one
\* with a text of 301, cut
C22_Witness ==
  /\ Built
  /\ \E i \in Rows : \E j \in Rows :
       /\ Len(df[i].Requisito_detallado) = 300
       /\ G_attrs[df[i].ID].requisito = df[i].Requisito_detallado
       /\ Len(df[j].Requisito_detallado) = 301
       /\ Len(G_attrs[df[j].ID].requisito) = 303

(***************************************************************************)
(* C23. On a graph with a cycle the breadth-first traversal starts from    *)
(* all the nodes of in-degree zero, each at level 0, or, when there is     *)
(* none, from one node alone, the first of those of least in-degree; and   *)
(* every node that no path from these seeds reaches ends with level 0.     *)
(***************************************************************************)
InDegree(n) == Cardinality(PredsOf(n))

LeastInDegree(n) == \A m \in Nodes : InDegree(n) <= InDegree(m)

\* the seeds of the traversal
FallbackSeeds ==
  IF \E n \in Nodes : InDegree(n) = 0
  THEN {n \in Nodes : InDegree(n) = 0}
  ELSE {n \in Nodes :
          /\ LeastInDegree(n)
          /\ \A m \in Nodes :
               LeastInDegree(m) => Index(G_nodes, n) <= Index(G_nodes, m)}

ReachedFromSeeds(n) == \E r \in FallbackSeeds : r = n \/ HasPath(r, n)

\* the traversal is about to start
FallbackStarts == pc = "bfs" /\ visited = {}

C23_FallbackSeedsAndUnreached ==
  /\ FallbackStarts =>
       /\ ~Acyclic
       /\ Range(queue) = {<<r, 0>> : r \in FallbackSeeds}
       /\ Len(queue) = Cardinality(FallbackSeeds)
       /\ (\A n \in Nodes : InDegree(n) > 0) => Len(queue) = 1
  /\ (Levelled /\ ~Acyclic) =>
       \A n \in Nodes : ~ReachedFromSeeds(n) => levels[n] = 0

\* no node has in-degree zero, several have the least in-degree; the
\* traversal from the one seed has given a node a level above 0 and has left
\* a node on another cycle unreached, at level 0
C23_Witness ==
  /\ pc = "levelled"
  /\ \A n \in Nodes : InDegree(n) > 0
  /\ Cardinality({n \in Nodes : LeastInDegree(n)}) > 1
  /\ \E n \in Nodes : ReachedFromSeeds(n) /\ levels[n] > 0
  /\ \E n \in Nodes : ~ReachedFromSeeds(n) /\ OnCycle(n) /\ levels[n] = 0

(***************************************************************************)
(* C24. In the fallback, the level of a node is raised to the level of its *)
(* parent + 1 along every edge traversed into it: whenever the traversal   *)
(* takes an entry for a node off the queue, the node gets the greater of   *)
(* its level so far and the level of the entry.                            *)
(***************************************************************************)
C24_LevelRaisedAlongEveryEdge ==
  [][(pc = "bfs" /\ queue # <<>>) =>
       levels'[queue[1][1]] = Max({Get(levels, queue[1][1], 0), queue[1][2]})]_vars

(***************************************************************************)
(* What the fallback computes: a node gets its level once, when the        *)
(* traversal first reaches it: the greater of the level that the           *)
(* interrupted topological pass left on it (none counts as 0) and its      *)
(* breadth-first depth, the least number of edges from a seed to it; edges *)
(* traversed into it later change nothing.  So a reached node that no      *)
(* cycle lies upstream of keeps the length of the longest path from a root *)
(* to it, and every other reached node ends at its depth.                  *)
(***************************************************************************)
\* the least number of edges from a node of S to n, S being k edges from the seeds
RECURSIVE DepthFrom(_, _, _)
DepthFrom(S, n, k) ==
  IF n \in S THEN k
  ELSE DepthFrom(S \cup {e[2] : e \in {x \in Edges : x[1] \in S}}, n, k + 1)

Depth(n) == DepthFrom(FallbackSeeds, n, 0)

\* neither n nor any node with a path to n lies on a cycle
NoCycleUpstream(n) == ~OnCycle(n) /\ \A m \in Nodes : HasPath(m, n) => ~OnCycle(m)

\* the greatest number of edges of a path that ends at n
RECURSIVE LongestPathTo(_)
LongestPathTo(n) ==
  IF PredsOf(n) = {} THEN 0
  ELSE 1 + Max({LongestPathTo(p) : p \in PredsOf(n)})

FallbackLevelSetOnFirstVisit ==
  /\ (pc = "bfs" /\ queue # <<>> /\ queue[1][1] \in visited) =>
       ENABLED (BfsStep /\ UNCHANGED levels)
  /\ (Levelled /\ ~Acyclic) =>
       \A n \in Nodes :
         ReachedFromSeeds(n) =>
           levels[n] = IF NoCycleUpstream(n) THEN LongestPathTo(n) ELSE Depth(n)

\* on a graph with a cycle: a node whose longest path from a root is longer
\* than its depth has kept the former, and a node behind a cycle, with an
\* edge from a node of its own depth, has ended at its depth
FallbackLevelsOfBothKinds ==
  /\ pc = "levelled" /\ ~Acyclic
  /\ \E n \in Nodes :
       /\ ReachedFromSeeds(n) /\ NoCycleUpstream(n)
       /\ Depth(n) < LongestPathTo(n)
       /\ levels[n] = LongestPathTo(n)
  /\ \E n \in Nodes : \E p \in PredsOf(n) :
       /\ ReachedFromSeeds(n) /\ ~NoCycleUpstream(n)
       /\ p # n /\ ReachedFromSeeds(p)
       /\ levels[p] = levels[n]

(***************************************************************************)
(* C25. The list of cycles given to the page holds at most 10 cycles, each *)
(* of them an elementary cycle of the graph, and the cycle flag is true    *)
(* exactly when the graph has a directed cycle, whether or not the list    *)
(* was cut.                                                                *)
(***************************************************************************)
\* c lists distinct nodes, each with an edge to the next and the last with
\* an edge to the first
IsElementaryCycle(c) ==
  /\ Len(c) >= 1
  /\ \A i \in 1..Len(c) : c[i] \in Nodes
  /\ \A i \in 1..Len(c) : \A j \in 1..Len(c) : c[i] = c[j] => i = j
  /\ \A i \in 1..Len(c) : <<c[i], c[(i % Len(c)) + 1]>> \in Edges

C25_CycleListCappedFlagExact ==
  Exported =>
    /\ Cardinality(cycles_js) <= 10
    /\ \A c \in cycles_js : IsElementaryCycle(c)
    /\ has_cycles <=> ~Acyclic

\* a graph with more than 10 cycles: 10 of them are given to the page and
\* the flag is true
C25_Witness ==
  /\ Exported
  /\ Cardinality(cycles) > 10
  /\ Cardinality(cycles_js) = 10
  /\ has_cycles

(***************************************************************************)
(* C26. As stated: a range written with two different prefixes is expanded *)
(* all the same, into the identifiers from its start number to its end     *)
(* number, each with the first prefix.                                     *)
(***************************************************************************)
OtherPrefix == <<"X", "X", "-">>

\* the text is the prefix followed by digits only
IsTokenWith(t, prefix) ==
  Len(t) >= 4 /\ SubSeq(t, 1, 3) = prefix /\ AllDigits(SubSeq(t, 4, Len(t)))

\* the text is a token with prefix p, two dots, and a token with prefix q
IsRangeOf(t, p, q) ==
  \E k \in 1..(Len(t) - 2) :
    /\ IsTokenWith(SubSeq(t, 1, k), p)
    /\ SubSeq(t, k + 1, k + 2) = <<".", ".">>
    /\ IsTokenWith(SubSeq(t, k + 3, Len(t)), q)

FirstToken(t) == SubSeq(t, 1, (CHOOSE k \in 1..Len(t) : t[k] = ".") - 1)

LastToken(t) == SubSeq(t, (CHOOSE k \in 1..Len(t) : t[k] = ".") + 2, Len(t))

TokenNumber(t) == NumberOf(SubSeq(t, 4, Len(t)))

\* a range with two different prefixes, one of them RM-
IsMismatchedRange(t) ==
  t # NaN /\ (IsRangeOf(t, RMPrefix, OtherPrefix) \/ IsRangeOf(t, OtherPrefix, RMPrefix))

C26_Original ==
  Parsed =>
    \A i \in Rows :
      (IsMismatchedRange(Cell(i))
         /\ TokenNumber(FirstToken(Cell(i))) <= TokenNumber(LastToken(Cell(i)))) =>
        /\ Len(parsed_deps[i]) =
             TokenNumber(LastToken(Cell(i))) - TokenNumber(FirstToken(Cell(i))) + 1
        /\ \A k \in 1..Len(parsed_deps[i]) :
             /\ SubSeq(parsed_deps[i][k], 1, 3) = SubSeq(Cell(i), 1, 3)
             /\ TokenNumber(parsed_deps[i][k]) =
                  TokenNumber(FirstToken(Cell(i))) + k - 1

(***************************************************************************)
(* C26, amended: only a range written with the prefix RM- on both sides is *)
(* a range.  A range whose two prefixes differ is not expanded: the text   *)
(* is scanned as a list, so it parses to the one of its two ends that      *)
(* bears the prefix RM-, as written, and to nothing else.                  *)
(***************************************************************************)
C26_MismatchedRangeIsScanned ==
  Parsed =>
    \A i \in Rows :
      IsMismatchedRange(Cell(i)) =>
        parsed_deps[i] =
          IF IsTokenWith(FirstToken(Cell(i)), RMPrefix)
          THEN <<FirstToken(Cell(i))>> ELSE <<LastToken(Cell(i))>>

\* a range from RM-001 to a greater number written with another prefix has
\* parsed to RM-001 alone
C26_Witness ==
  /\ Parsed
  /\ \E i \in Rows :
       /\ IsRangeOf(Cell(i), RMPrefix, OtherPrefix)
       /\ TokenNumber(FirstToken(Cell(i))) < TokenNumber(LastToken(Cell(i)))
       /\ parsed_deps[i] = <<FirstToken(Cell(i))>>

(***************************************************************************)
(* C27. The views do not compose: whatever was done before, the visible    *)
(* set of a filter, ancestors, descendants, neighbourhood or cycles view   *)
(* is given by the exported data and the argument of the view alone (the   *)
(* three filter values, or the node it was asked for), never by what was   *)
(* visible or which view was shown before.                                 *)
(***************************************************************************)
NodeViews == {"ancestors", "descendants", "neighborhood"}

\* the visible set of a view, from its kind, its argument and the data
ViewOf(ctx) ==
  CASE ctx.type = "filter" ->
         {n \in NodeKeys : /\ Passes(node_data_js[n].area, ctx.area)
                           /\ Passes(node_data_js[n].prioridad, ctx.priority)
                           /\ Passes(node_data_js[n].version, ctx.version)}
    [] ctx.type = "ancestors" -> {ctx.node} \cup Anc(ctx.node)
    [] ctx.type = "descendants" -> {ctx.node} \cup Desc(ctx.node)
    [] ctx.type = "neighborhood" ->
         {ctx.node} \cup {m \in Nodes : Adjacent(ctx.node, m)}
    [] ctx.type = "cycles" -> UNION {{c[k] : k \in 1..Len(c)} : c \in cycles_js}

C27_ViewsDoNotCompose ==
  (pc = "page" /\ ViewType \in NodeViews \cup {"filter", "cycles"}) =>
    /\ ViewType \in NodeViews => ViewNode \in Nodes
    /\ visibleNodeIds = ViewOf(currentViewContext)

\* a filter view that shows nodes while the selected node, whose ancestors,
\* descendants or neighbourhood could have been shown before, is not among
\* them
C27_Witness ==
  /\ pc = "page"
  /\ ViewType = "filter"
  /\ selectedNodeId # Null
  /\ selectedNodeId \notin visibleNodeIds
  /\ visibleNodeIds # {}

(***************************************************************************)
(* C28. When several records bear the same identifier R, the edges into    *)
(* node R come from the known dependencies of all of them: an edge that an *)
(* earlier record gave is still there after a later record has replaced    *)
(* the attributes of the node.                                             *)
(***************************************************************************)
\* the row identifiers that row i names
KnownDepsOfRow(i) == Range(parsed_deps[i]) \cap RowIds

C28_EdgesOfDuplicatesAccumulate ==
  Built =>
    \A R \in RowIds :
      PredsOf(R) = UNION {KnownDepsOfRow(i) : i \in {j \in Rows : df[j].ID = R}}

\* two records of one identifier, each naming a row that the other does not
\* name: the node has both edges, and its attributes are those of the later
C28_Witness ==
  /\ Built
  /\ \E i \in Rows : \E j \in Rows :
       /\ i < j /\ df[i].ID = df[j].ID /\ j = LastRowOf(i)
       /\ KnownDepsOfRow(i) \ KnownDepsOfRow(j) # {}
       /\ KnownDepsOfRow(j) \ KnownDepsOfRow(i) # {}
       /\ PredsOf(df[i].ID) = KnownDepsOfRow(i) \cup KnownDepsOfRow(j)
       /\ G_attrs[df[j].ID].dependencias = df[j].Dependencias

(***************************************************************************)
(* C29. resetView leaves the tooltip hidden and no longer pinned, also     *)
(* when a click on a node had pinned it; so whenever the tooltip is hidden *)
(* and does not show as pinned, the pointer coming over a node displays    *)
(* the tooltip of that node.                                               *)
(***************************************************************************)
ResetUnpins ==
  resetView => (tooltipDisplay' = "none" /\ ~tooltipPinnedClass' /\ ~tooltipPinned')

HoverShowsHiddenTooltip ==
  (network_on_hoverNode /\ tooltipDisplay = "none" /\ ~tooltipPinnedClass) =>
    tooltipDisplay' = "block"

C29_ResetRestoresHover == [][ResetUnpins]_vars /\ [][HoverShowsHiddenTooltip]_vars

(***************************************************************************)
(* C30. A dependency text that begins with a range form whose start is     *)
(* above its end parses to the empty list: nothing is raised and the range *)
(* is not expanded downwards.  The row of that text gets no dependency     *)
(* edge: once the graph is built, no edge comes into its node.             *)
(***************************************************************************)
\* row i bears a range form whose start is above its end
HasReversedRange(i) ==
  /\ Cell(i) # NaN
  /\ RangeAt(Cell(i), 1)
  /\ RangeStart(TheRangeAt(Cell(i), 1)) > RangeEnd(TheRangeAt(Cell(i), 1))

C30_ReversedRangeIsEmpty ==
  /\ (\E i \in Rows : HasReversedRange(i)) => pc # "raised"
  /\ Parsed =>
       \A i \in Rows :
         HasReversedRange(i) =>
           /\ parsed_deps[i] = <<>>
           /\ Built => PredsOf(df[i].ID) = {}

\* a table is built in which a row bears a reversed range and comes out with
\* no edge into it, while the range written forwards gives another row edges
C30_Witness ==
  /\ Built
  /\ \E i \in Rows :
       /\ HasReversedRange(i)
       /\ parsed_deps[i] = <<>>
       /\ PredsOf(df[i].ID) = {}
  /\ \E j \in Rows :
       /\ Cell(j) # NaN
       /\ RangeAt(Cell(j), 1)
       /\ ~HasReversedRange(j)
       /\ PredsOf(df[j].ID) # {}

====
